---- MODULE Spec2Model ----
(***************************************************************************)
(* Model of the DMV fee-calculator scraper: the batch driver of            *)
(* run_scrapper.py, the run_scrape workflow of core.py and the response    *)
(* parser of parser.py.                                                    *)
(*                                                                         *)
(* Text is modelled as a sequence of one-character strings wherever the    *)
(* code inspects it character by character (str.lower, the "in" substring  *)
(* test, get_text(strip=True)); markup that the code only reaches through  *)
(* BeautifulSoup is kept as the parsed tree.                               *)
(***************************************************************************)
EXTENDS Integers, Sequences, FiniteSets, TLC

(* ------------------------------------------------------------------------ *)
(* Bounds of the model                                                      *)
(* ------------------------------------------------------------------------ *)

\* elapsed times run up to CAPTCHA_TIMEOUT + MaxElapsedOver milliseconds
MaxElapsedOver ==
  1

\* free text before a phrase in a response body is padded by 0..MaxPad chars
MaxPad ==
  1

\* number of run_scrape calls executed as concurrent tasks
NumTasks ==
  2

(* ------------------------------------------------------------------------ *)
(* Program constants                                                        *)
(* ------------------------------------------------------------------------ *)

\* for i in range(10)
NumRuns ==
  10

\* int(os.getenv("CAPTCHA_TIMEOUT", "60000"))
CAPTCHA_TIMEOUT ==
  60000

\* form_data["g-recaptcha-response"]
TokenField ==
  "g-recaptcha-response"

(* ------------------------------------------------------------------------ *)
(* Strings                                                                  *)
(* ------------------------------------------------------------------------ *)

RejectionPhrase ==
  <<
    "s","e","s","s","i","o","n"," ","n","o","t"," ","v","e","r","i","f","i",
    "e","d" >>

AlertMarker ==
  <<
    "<","d","i","v"," ","c","l","a","s","s","=","\"","a","l","e","r","t",
    " ","a","l","e","r","t","-","-","e","r","r","o","r","\"" >>

FormLegendMarker ==
  <<
    "<","l","e","g","e","n","d",">","c","a","l","c","u","l","a","t","e"," ",
    "n","e","w"," ","r","e","s","i","d","e","n","t"," ","f","e","e","s","<",
    "/","l","e","g","e","n","d",">" >>

LegendOpen ==
  <<
    "<","l","e","g","e","n","d",">" >>

LegendClose ==
  <<
    "<","/","l","e","g","e","n","d",">" >>

FeesCaption ==
  <<
    "F","e","e","s" >>

TxtRejTitle ==
  <<
    "S","e","s","s","i","o","n"," ","N","o","t"," ","V","e","r","i","f","i",
    "e","d" >>

TxtRejUpper ==
  <<
    "S","E","S","S","I","O","N"," ","N","O","T"," ","V","E","R","I","F","I",
    "E","D" >>

TxtRejMixed ==
  <<
    "s","E","s","S","i","O","n"," ","N","o","T"," ","v","E","r","I","f","I",
    "e","D" >>

TxtNotRej ==
  <<
    "s","e","s","s","i","o","n"," ","v","e","r","i","f","i","e","d" >>

CapFormTitle ==
  <<
    "C","a","l","c","u","l","a","t","e"," ","N","e","w"," ","R","e","s","i",
    "d","e","n","t"," ","F","e","e","s" >>

CapFormUpper ==
  <<
    "C","A","L","C","U","L","A","T","E"," ","N","E","W"," ","R","E","S","I",
    "D","E","N","T"," ","F","E","E","S" >>

CapFeesPadded ==
  <<
    " ","F","e","e","s"," " >>

CapFeesLower ==
  <<
    "f","e","e","s" >>

AlertUpper ==
  <<
    "<","D","I","V"," ","C","L","A","S","S","=","\"","A","L","E","R","T",
    " ","A","L","E","R","T","-","-","E","R","R","O","R","\"" >>

AlertOther ==
  <<
    "<","d","i","v"," ","c","l","a","s","s","=","\"","a","l","e","r","t",
    " ","a","l","e","r","t","-","-","i","n","f","o","\"" >>

UpperToLower ==
  ("A" :> "a") @@ ("B" :> "b") @@ ("C" :> "c") @@ ("D" :> "d") @@ ("E" :> "e") @@ ("F" :> "f") @@ ("G" :> "g") @@ ("H" :> "h") @@ ("I" :> "i") @@ ("J" :> "j") @@ ("K" :> "k") @@ ("L" :> "l") @@ ("M" :> "m") @@ ("N" :> "n") @@ ("O" :> "o") @@ ("P" :> "p") @@ ("Q" :> "q") @@ ("R" :> "r") @@ ("S" :> "s") @@ ("T" :> "t") @@ ("U" :> "u") @@ ("V" :> "v") @@ ("W" :> "w") @@ ("X" :> "x") @@ ("Y" :> "y") @@ ("Z" :> "z")


\* str.lower() on one character
LowerChar(c) ==
  IF c \in DOMAIN UpperToLower THEN UpperToLower[c] ELSE c

\* str.lower()
Lower(s) ==
  [i \in 1..Len(s) |-> LowerChar(s[i])]

\* needle in hay
Contains(hay, needle) ==
  \E i \in 0..(Len(hay) - Len(needle)) :
    \A j \in 1..Len(needle) : hay[i + j] = needle[j]

RECURSIVE LStrip(_)
LStrip(s) ==
  IF s # <<>> /\ Head(s) = " " THEN LStrip(Tail(s)) ELSE s

RECURSIVE RStrip(_)
RStrip(s) ==
  IF s # <<>> /\ s[Len(s)] = " " THEN RStrip(SubSeq(s, 1, Len(s) - 1)) ELSE s

\* get_text(strip=True) of an element holding one text node
Strip(s) ==
  LStrip(RStrip(s))

\* n filler characters
Pad(n) ==
  [i \in 1..n |-> "x"]

(* ------------------------------------------------------------------------ *)
(* Dictionaries                                                             *)
(* ------------------------------------------------------------------------ *)

EmptyDict ==
  [k \in {} |-> ""]

\* d[k] = v
Put(d, k, v) ==
  [x \in DOMAIN d \cup {k} |-> IF x = k THEN v ELSE d[x]]

\* {**b, **a}
Merge_Reversed(a, b) ==
  [k \in DOMAIN a \cup DOMAIN b |-> IF k \in DOMAIN a THEN a[k] ELSE b[k]]

\* {**a, **b}
Merge(a, b) ==
  [k \in DOMAIN a \cup DOMAIN b |-> IF k \in DOMAIN b THEN b[k] ELSE a[k]]

(* ------------------------------------------------------------------------ *)
(* The form page                                                            *)
(* ------------------------------------------------------------------------ *)

\* a <script> element: its src attribute, whether the src contains
\* "recaptchav3.js", whether it contains "?", and the name=value pairs of
\* the text after the first "?"
ScriptTag(hasSrc, marker, hasQuery, params) ==
  [hasSrc |-> hasSrc, marker |-> marker, hasQuery |-> hasQuery,
   params |-> params]

\* an <input> element
InputTag(type, hasName, name, hasValue, value) ==
  [type |-> type, hasName |-> hasName, name |-> name,
   hasValue |-> hasValue, value |-> value]

FormTag(id, inputs) ==
  [id |-> id, inputs |-> inputs]

\* a response to the form GET: parsed body and the cookie it sets ("" none)
FormPage(scripts, forms, cookie) ==
  [scripts |-> scripts, forms |-> forms, cookie |-> cookie]

PageOk ==
  FormPage(
    << ScriptTag(TRUE, TRUE, TRUE,
                 << <<"sitekey", "K1">>, <<"selector", "#f">>,
                    <<"action", "A1">> >>) >>,
    << FormTag("FeeRequestForm",
               << InputTag("hidden", TRUE, "csrf", TRUE, "c1"),
                  InputTag("hidden", TRUE, "typeLicense", TRUE, "99"),
                  InputTag("text", TRUE, "yearModel", TRUE, "1999"),
                  InputTag("hidden", FALSE, "", TRUE, "anon") >>) >>,
    "s1")

PageOk2 ==
  FormPage(
    << ScriptTag(TRUE, FALSE, TRUE, << <<"sitekey", "KX">> >>),
       ScriptTag(FALSE, FALSE, FALSE, << >>),
       ScriptTag(TRUE, TRUE, TRUE,
                 << <<"action", "A2">>, <<"sitekey", "K2">>,
                    <<"sitekey", "K3">> >>) >>,
    << FormTag("Search", << InputTag("hidden", TRUE, "q", TRUE, "s") >>),
       FormTag("FeeRequestForm",
               << InputTag("hidden", TRUE, "csrf", TRUE, "c2"),
                  InputTag("hidden", TRUE, TokenField, TRUE, "stale"),
                  InputTag("hidden", TRUE, "typeLicense", TRUE, "98"),
                  InputTag("hidden", TRUE, "flag", FALSE, "") >>) >>,
    "s2")

PageNoAction ==
  FormPage(
    << ScriptTag(TRUE, TRUE, TRUE,
                 << <<"sitekey", "K1">>, <<"action", "">> >>) >>,
    << FormTag("Search",
               << InputTag("hidden", TRUE, "q", TRUE, "x") >>) >>,
    "")

PageNoScript ==
  FormPage(
    << ScriptTag(TRUE, FALSE, TRUE, << <<"sitekey", "KX">> >>) >>,
    << FormTag("FeeRequestForm",
               << InputTag("hidden", TRUE, "csrf", TRUE, "c3") >>) >>,
    "s3")

PageNoQuery ==
  FormPage(
    << ScriptTag(TRUE, TRUE, FALSE, << >>) >>,
    << >>,
    "")

PageEmptyKey ==
  FormPage(
    << ScriptTag(TRUE, TRUE, TRUE,
                 << <<"sitekey", "">>, <<"action", "A1">> >>) >>,
    << >>,
    "")

\* two forms carry the identifier
PageTwoForms ==
  FormPage(
    << >>,
    << FormTag("FeeRequestForm",
               << InputTag("hidden", TRUE, "csrf", TRUE, "c4") >>),
       FormTag("FeeRequestForm",
               << InputTag("hidden", TRUE, "step", TRUE, "2") >>) >>,
    "")

\* a hidden input whose type attribute is written in upper case
PageUpperType ==
  FormPage(
    << >>,
    << FormTag("FeeRequestForm",
               << InputTag("HIDDEN", TRUE, "csrf", TRUE, "c5"),
                  InputTag("hidden", TRUE, "step", TRUE, "1") >>) >>,
    "")

\* the bodies the form URL may answer with
Pages ==
  {PageOk, PageOk2, PageNoAction, PageNoScript, PageNoQuery, PageEmptyKey,
   PageTwoForms, PageUpperType}

\* soup.find("script", attrs={"src": lambda s: s and "recaptchav3.js" in s})
\* as the index of the first matching tag, 0 when there is none
FindLoaderScript(html) ==
  LET hits == {i \in 1..Len(html.scripts) :
                 html.scripts[i].hasSrc /\ html.scripts[i].marker}
  IN  IF hits = {} THEN 0
      ELSE CHOOSE i \in hits : \A j \in hits : i <= j

\* parse_qs(qs).get(key, [""])[0]: blank values are dropped by parse_qs
QsFirst(params, key) ==
  LET vals == SelectSeq(params, LAMBDA p : p[1] = key /\ p[2] # "")
  IN  IF vals = << >> THEN "" ELSE vals[1][2]

ConfigError ==
  [ok |-> FALSE, sitekey |-> "", action |-> ""]

\* extract_recaptcha_config: ok = FALSE stands for the raised exception
extract_recaptcha_config(html) ==
  LET i == FindLoaderScript(html)
  IN  IF i = 0 THEN ConfigError
      ELSE IF ~html.scripts[i].hasQuery THEN ConfigError
      ELSE LET sitekey == QsFirst(html.scripts[i].params, "sitekey")
               action  == QsFirst(html.scripts[i].params, "action")
           IN  IF sitekey = "" THEN ConfigError
               ELSE [ok |-> TRUE, sitekey |-> sitekey, action |-> action]

\* str.lower() on an attribute value
AttrLower(v) ==
  IF v = "HIDDEN" THEN "hidden" ELSE v

\* the CSS attribute selector [type='hidden'] on an HTML document: the
\* value of the type attribute is compared without regard to letter case
CssTypeHidden(inp) ==
  AttrLower(inp.type) = "hidden"

\* find_all("input", type="hidden"): the attribute value is compared as is
FindAllTypeHidden(inp) ==
  inp.type = "hidden"

\* the extraction loop taking every input whatever its type
RECURSIVE CollectHidden_AnyType(_, _)
CollectHidden_AnyType(inputs, acc) ==
  IF inputs = << >> THEN acc
  ELSE LET inp == Head(inputs)
           take == inp.hasName /\ inp.name # ""
           val == IF inp.hasValue THEN inp.value ELSE ""
       IN  CollectHidden_AnyType(Tail(inputs),
                                 IF take THEN Put(acc, inp.name, val)
                                 ELSE acc)

\* the loop body of the hidden-field extraction of run_scrape over the
\* inputs of one form
RECURSIVE CollectHidden(_, _)
CollectHidden(inputs, acc) ==
  IF inputs = << >> THEN acc
  ELSE LET inp == Head(inputs)
           take == CssTypeHidden(inp) /\ inp.hasName /\ inp.name # ""
           val == IF inp.hasValue THEN inp.value ELSE ""
       IN  CollectHidden(Tail(inputs),
                         IF take THEN Put(acc, inp.name, val) ELSE acc)

\* the selection without the form's id: the hidden inputs of every form
RECURSIVE SelectHidden_AnyForm(_, _)
SelectHidden_AnyForm(forms, acc) ==
  IF forms = << >> THEN acc
  ELSE SelectHidden_AnyForm(Tail(forms),
                            CollectHidden(Head(forms).inputs, acc))

\* soup.select("form#FeeRequestForm input[type='hidden']") and the loop
\* over it in run_scrape
RECURSIVE SelectHidden(_, _)
SelectHidden(forms, acc) ==
  IF forms = << >> THEN acc
  ELSE SelectHidden(Tail(forms),
                    IF Head(forms).id = "FeeRequestForm"
                    THEN CollectHidden(Head(forms).inputs, acc)
                    ELSE acc)

InlineHiddenFields(html) ==
  SelectHidden(html.forms, EmptyDict)

\* the loop of extract_hidden_fields over the inputs of the form
RECURSIVE HelperCollect(_, _)
HelperCollect(inputs, acc) ==
  IF inputs = << >> THEN acc
  ELSE LET inp == Head(inputs)
           take == FindAllTypeHidden(inp) /\ inp.hasName /\ inp.name # ""
           val == IF inp.hasValue THEN inp.value ELSE ""
       IN  HelperCollect(Tail(inputs),
                         IF take THEN Put(acc, inp.name, val) ELSE acc)

\* extract_hidden_fields: soup.find takes the first form with the id
extract_hidden_fields(html) ==
  LET hits == {i \in 1..Len(html.forms) : html.forms[i].id = "FeeRequestForm"}
  IN  IF hits = {} THEN EmptyDict
      ELSE HelperCollect(
             html.forms[CHOOSE i \in hits : \A j \in hits : i <= j].inputs,
             EmptyDict)

(* ------------------------------------------------------------------------ *)
(* The payload builder                                                      *)
(* ------------------------------------------------------------------------ *)

\* the random selections of generate_random_payload that decide which keys
\* the payload has: vehicle type, motive power, axles, weight type
PayloadChoices ==
  { [vt |-> "11", mp |-> "G", ax |-> "2", wt |-> "U"],
    [vt |-> "40", mp |-> "E", ax |-> "3", wt |-> "G"] }

\* generate_random_payload, for one outcome of its random selections; the
\* remaining base keys are always present and are represented by zipCode
generate_random_payload(c) ==
  LET base == [typeLicense |-> c.vt, motivePower |-> c.mp,
               numberOfAxles |-> c.ax, weightType |-> c.wt,
               zipCode |-> "94607"]
      p1 == IF c.mp = "E" THEN Put(base, "electricType", "1000") ELSE base
      p2 == IF c.wt = "U"
            THEN IF c.ax = "2"
                 THEN Put(p1, "unladenRangeTwoAxles", "1000")
                 ELSE Put(p1, "unladenRangeMoreThanTwoAxles", "1000")
            ELSE Put(p1, "grossRange", "A")
      p3 == IF c.vt = "40" THEN Put(p2, "trailerType", "PTI") ELSE p2
  IN  [k \in {x \in DOMAIN p3 : p3[x] # ""} |-> p3[k]]

(* ------------------------------------------------------------------------ *)
(* The submission response                                                  *)
(* ------------------------------------------------------------------------ *)

\* a <legend>: its text, whether it sits inside a <fieldset>, and the text
\* of the <dt> and <dd> elements of that fieldset, in document order
LegendTag(caption, fieldset, dts, dds) ==
  [caption |-> caption, fieldset |-> fieldset, dts |-> dts, dds |-> dds]

\* the <table class="table--secondary">: rows of <tbody>, each the text of
\* its <td> cells
TableTag(present, rows) ==
  [present |-> present, rows |-> rows]

NoTable ==
  TableTag(FALSE, << >>)

\* the markup of a response body between its leading and trailing text
Markup(alert, legends, table) ==
  [alert |-> alert, legends |-> legends, table |-> table]

\* a response body
Doc(head, m, tail) ==
  [head |-> head, alert |-> m.alert, legends |-> m.legends,
   table |-> m.table, tail |-> tail]

RECURSIVE Flatten(_)
Flatten(ss) ==
  IF ss = << >> THEN << >> ELSE Head(ss) \o Flatten(Tail(ss))

Wrap(open, texts, close) ==
  Flatten([i \in 1..Len(texts) |-> <<open>> \o texts[i] \o <<close>>])

LegendText(l) ==
  (IF l.fieldset THEN <<"<fieldset>">> ELSE << >>)
  \o LegendOpen \o l.caption \o LegendClose
  \o Wrap("<dt>", l.dts, "</dt>") \o Wrap("<dd>", l.dds, "</dd>")
  \o (IF l.fieldset THEN <<"</fieldset>">> ELSE << >>)

TableText(t) ==
  IF ~t.present THEN << >>
  ELSE <<"<table class=\"table--secondary\"><tbody>">>
       \o Flatten([i \in 1..Len(t.rows) |->
                     <<"<tr>">> \o Wrap("<td>", t.rows[i], "</td>")
                     \o <<"</tr>">>])
       \o <<"</tbody></table>">>

\* submit_resp.text: the characters of a response body
Text(doc) ==
  doc.head \o doc.alert
  \o Flatten([i \in 1..Len(doc.legends) |-> LegendText(doc.legends[i])])
  \o TableText(doc.table) \o doc.tail

FeesOne ==
  LegendTag(FeesCaption, TRUE, << <<"R","e","g">> >>, << <<"$","5">> >>)

FeesPadded ==
  LegendTag(CapFeesPadded, TRUE,
            << <<" ","R","e","g"," ">>, <<"T","a","x">> >>,
            << <<" ","$","5">> >>)

FeesNoItems ==
  LegendTag(FeesCaption, TRUE, << >>, << <<"$","5">> >>)

FeesLower ==
  LegendTag(CapFeesLower, TRUE, << <<"R","e","g">> >>, << <<"$","5">> >>)

FeesNoFieldset ==
  LegendTag(FeesCaption, FALSE, << >>, << >>)

FormLegendTitle ==
  LegendTag(CapFormTitle, TRUE, << >>, << >>)

FormLegendUpper ==
  LegendTag(CapFormUpper, TRUE, << >>, << >>)

TableOne ==
  TableTag(TRUE, << << <<"V","L","F">> >>,
                    << <<" ","V","L","F"," ">>, <<"$","9">>, <<"n">> >> >>)

TableShortRows ==
  TableTag(TRUE, << << <<"V","L","F">> >> >>)

TableMixed ==
  TableTag(TRUE, << << <<" ","A"," ">>, <<"$","1">> >>,
                    << <<"x">> >>,
                    << <<"B">>, <<" ","$","2"," ">>, <<"n">> >>,
                    << >> >>)

MarkupNone ==
  Markup(<< >>, << >>, NoTable)

MarkupBoth ==
  Markup(<< >>, <<FeesOne>>, TableOne)

\* the markup a submission response may carry
Markups ==
  { MarkupNone, MarkupBoth,
    Markup(<< >>, <<FeesOne>>, NoTable),
    Markup(<< >>, << >>, TableOne),
    Markup(<< >>, << >>, TableMixed),
    Markup(<< >>, <<FormLegendTitle, FeesPadded>>, TableShortRows),
    Markup(<< >>, <<FeesNoItems>>, TableShortRows),
    Markup(<< >>, <<FeesLower>>, NoTable),
    Markup(<< >>, <<FeesNoFieldset, FeesOne>>, TableOne),
    Markup(AlertMarker, <<FormLegendTitle>>, NoTable),
    Markup(AlertMarker, <<FormLegendUpper, FeesOne>>, TableOne),
    Markup(AlertMarker, <<FeesOne>>, NoTable),
    Markup(AlertUpper, <<FormLegendTitle, FeesOne>>, NoTable),
    Markup(AlertOther, <<FormLegendTitle>>, TableOne) }

\* free text a response may carry: the rejection phrase in several letter
\* cases and a text that is not the phrase
Phrases ==
  {RejectionPhrase, TxtRejTitle, TxtRejUpper, TxtRejMixed, TxtNotRej}

\* the bodies the submission URL may answer with
Bodies ==
  {Doc(<< >>, m, << >>) : m \in Markups}
  \cup {Doc(Pad(n) \o p, m, << >>) :
          n \in 0..MaxPad, p \in Phrases, m \in {MarkupNone, MarkupBoth}}
  \cup {Doc(<< >>, MarkupBoth, Pad(n) \o p \o Pad(n)) :
          n \in 0..MaxPad, p \in Phrases}

\* the HTTP status codes a response may carry
StatusCodes ==
  {200, 500}

(* ------------------------------------------------------------------------ *)
(* parser.py                                                                *)
(* ------------------------------------------------------------------------ *)

\* a list result, or None
ListOf(items) ==
  [none |-> FALSE, items |-> items]

NoneList ==
  [none |-> TRUE, items |-> << >>]

\* _extract_summary
extract_summary(soup) ==
  LET hits == {i \in 1..Len(soup.legends) :
                 Strip(soup.legends[i].caption) = FeesCaption}
  IN  IF hits = {} THEN NoneList
      ELSE LET l == soup.legends[CHOOSE i \in hits : \A j \in hits : i <= j]
           IN  IF ~l.fieldset THEN NoneList
               ELSE ListOf([i \in 1..Len(l.dts) |->
                              [Item |-> Strip(l.dts[i]),
                               Fee |-> IF i <= Len(l.dds)
                                       THEN Strip(l.dds[i]) ELSE << >>]])

\* the loop of _extract_detail leaving at the first row with fewer than
\* two cells
RECURSIVE DetailRows_StopAtShort(_)
DetailRows_StopAtShort(rows) ==
  IF rows = << >> THEN << >>
  ELSE LET tds == Head(rows)
       IN  IF Len(tds) >= 2
           THEN << [Description |-> Strip(tds[1]), Fee |-> Strip(tds[2])] >>
                \o DetailRows_StopAtShort(Tail(rows))
           ELSE << >>

\* the loop of _extract_detail over the rows
RECURSIVE DetailRows(_)
DetailRows(rows) ==
  IF rows = << >> THEN << >>
  ELSE LET tds == Head(rows)
       IN  (IF Len(tds) >= 2
            THEN << [Description |-> Strip(tds[1]), Fee |-> Strip(tds[2])] >>
            ELSE << >>)
           \o DetailRows(Tail(rows))

\* _extract_detail
extract_detail(soup) ==
  IF ~soup.table.present THEN NoneList
  ELSE ListOf(DetailRows(soup.table.rows))

\* parse_dmv_response_and_save raising when either list is empty
parse_dmv_response_and_save_Either(html, dir) ==
  LET summary_list == extract_summary(html)
      detail_list  == extract_detail(html)
      d1 == IF summary_list.none \/ summary_list.items = << >> THEN dir
            ELSE Put(dir, "summary.csv", summary_list.items)
      d2 == IF detail_list.none \/ detail_list.items = << >> THEN d1
            ELSE Put(d1, "detailed.csv", detail_list.items)
  IN  IF summary_list.items = << >> \/ detail_list.items = << >>
      THEN [dir |-> Put(d2, "failed_parse.html", Text(html)),
            raised |-> TRUE]
      ELSE [dir |-> d2, raised |-> FALSE]

\* parse_dmv_response_and_save dumping the lower-cased body
parse_dmv_response_and_save_LowerDump(html, dir) ==
  LET summary_list == extract_summary(html)
      detail_list  == extract_detail(html)
      d1 == IF summary_list.none \/ summary_list.items = << >> THEN dir
            ELSE Put(dir, "summary.csv", summary_list.items)
      d2 == IF detail_list.none \/ detail_list.items = << >> THEN d1
            ELSE Put(d1, "detailed.csv", detail_list.items)
  IN  IF summary_list.items = << >> /\ detail_list.items = << >>
      THEN [dir |-> Put(d2, "failed_parse.html", Lower(Text(html))),
            raised |-> TRUE]
      ELSE [dir |-> d2, raised |-> FALSE]

\* parse_dmv_response_and_save: the run directory after the call, and
\* whether the call raised
parse_dmv_response_and_save(html, dir) ==
  LET summary_list == extract_summary(html)
      detail_list  == extract_detail(html)
      d1 == IF summary_list.none \/ summary_list.items = << >> THEN dir
            ELSE Put(dir, "summary.csv", summary_list.items)
      d2 == IF detail_list.none \/ detail_list.items = << >> THEN d1
            ELSE Put(d1, "detailed.csv", detail_list.items)
  IN  IF summary_list.items = << >> /\ detail_list.items = << >>
      THEN [dir |-> Put(d2, "failed_parse.html", Text(html)),
            raised |-> TRUE]
      ELSE [dir |-> d2, raised |-> FALSE]

(* ------------------------------------------------------------------------ *)
(* State                                                                    *)
(* ------------------------------------------------------------------------ *)

\* the identifiers of the run_scrape calls executed as concurrent tasks
Tasks ==
  0..(NumTasks - 1)

VARIABLES
  driver,         \* run_scrapper.py __main__: "start", "loop", "done", "crashed"
  idx,            \* the loop variable i: the next run identifier
  invoked,        \* number of run_scrape calls made by the driver
  pc,             \* position of the current run_scrape call
  outcome,        \* how the last run_scrape call ended
  kind,           \* the return site of a failed run
  session,        \* session.cookies of the current run
  form_html,      \* the text of the form page of the first GET
  form_status,    \* status_code of the last form GET response (0: none)
  hidden_fields,
  payload,
  form_data,
  elapsed,        \* elapsed ms of the first solve attempt, once it failed
  new_html,       \* the text of the re-fetched form page
  captcha_token,
  submit_resp,    \* status code and body of the POST response
  files,          \* the artifacts in the current run's directory
  getCount,       \* form GETs issued by the current run
  solveAttempts,  \* solve_captcha calls of the current run: TRUE for a
                  \* call that returned a token, FALSE for one that raised
  solverCalls,    \* solve requests made to the solving service
  posts,          \* bodies POSTed by the current run
  parserCalls,    \* parse_dmv_response_and_save calls of the current run
  leftover,       \* what each results/<i> directory holds from an earlier
                  \* execution of the program
  cpc,            \* concurrent runs: position of each run_scrape call
  rootHandlers,   \* concurrent runs: the run directories whose log file
                  \* is attached to logging.root
  cwrites,        \* concurrent runs: which run wrote which file where
  cjar,           \* concurrent runs: the cookies of each session
  creqs           \* concurrent runs: the requests sent

driverVars ==
  <<driver, idx, invoked>>

localVars ==
  <<form_html, hidden_fields, payload, form_data, elapsed, new_html,
    captcha_token, submit_resp>>

traceVars ==
  <<getCount, solveAttempts, solverCalls, posts, parserCalls>>

\* the state of the sequential program
seqVars ==
  <<driver, idx, invoked, pc, outcome, kind, session, form_html,
    hidden_fields, payload, form_data, elapsed, new_html, captcha_token,
    submit_resp, files, getCount, solveAttempts, solverCalls, posts,
    parserCalls, leftover, form_status>>

\* the state of run_scrape calls executed as concurrent tasks
concVars ==
  <<cpc, rootHandlers, cwrites, cjar, creqs>>

vars ==
  <<seqVars, concVars>>

\* no page fetched yet
NoPage ==
  FormPage(<< >>, << >>, "")

\* no response received yet
NoResp ==
  [status |-> 0, body |-> Doc(<< >>, MarkupNone, << >>)]

\* what a results directory may hold before the driver starts
OldText ==
  <<"o","l","d">>

\* the artifacts an earlier execution left in a run directory
StaleDir ==
  ("form.html" :> FormPage(<< >>, << >>, "old"))
  @@ ("summary.csv" :> << [Item |-> OldText, Fee |-> OldText] >>)
  @@ ("detailed.csv" :> << [Description |-> OldText, Fee |-> OldText] >>)
  @@ ("failed_parse.html" :> OldText)
  @@ ("scraper_debug.log" :> OldText)

\* the tokens the solving service may answer with; "" stands for the falsy
\* result of a failed solve
SolverAnswers ==
  {"", "tokA", "tokB"}

\* the elapsed milliseconds of a solve attempt
ElapsedTimes ==
  {0, CAPTCHA_TIMEOUT} \cup
  ((CAPTCHA_TIMEOUT + 1)..(CAPTCHA_TIMEOUT + MaxElapsedOver))

Init ==
  /\ driver = "start"
  /\ idx = 0
  /\ invoked = 0
  /\ pc = "idle"
  /\ outcome = "NONE"
  /\ kind = ""
  /\ session = EmptyDict
  /\ form_html = NoPage
  /\ form_status = 0
  /\ hidden_fields = EmptyDict
  /\ payload = EmptyDict
  /\ form_data = EmptyDict
  /\ elapsed = 0
  /\ new_html = NoPage
  /\ captcha_token = ""
  /\ submit_resp = NoResp
  /\ files = EmptyDict
  /\ getCount = 0
  /\ solveAttempts = << >>
  /\ solverCalls = << >>
  /\ posts = << >>
  /\ parserCalls = 0
  /\ leftover = StaleDir
  /\ cpc = [t \in Tasks |-> "new"]
  /\ rootHandlers = {}
  /\ cwrites = {}
  /\ cjar = [s \in Tasks |-> {}]
  /\ creqs = {}

(* ------------------------------------------------------------------------ *)
(* run_scrapper.py                                                          *)
(* ------------------------------------------------------------------------ *)

\* the driver without the removal of the entries of the results directory
clear_directory_Keep ==
  /\ driver = "start"
  /\ driver' = "loop"
  /\ leftover' = leftover
  /\ UNCHANGED <<idx, invoked, pc, outcome, kind, session, localVars,
                 files, traceVars, concVars, form_status>>

\* clear_directory(run_dir)
clear_directory ==
  /\ driver = "start"
  /\ driver' = "loop"
  /\ leftover' = EmptyDict
  /\ UNCHANGED <<idx, invoked, pc, outcome, kind, session, localVars,
                 files, traceVars, concVars, form_status>>

\* the for loop is exhausted
DriverFinish ==
  /\ UNCHANGED <<leftover, concVars, form_status>>
  /\ driver = "loop"
  /\ pc = "idle"
  /\ idx = NumRuns
  /\ driver' = "done"
  /\ UNCHANGED <<idx, invoked, pc, outcome, kind, session, localVars,
                 files, traceVars>>

(* ------------------------------------------------------------------------ *)
(* core.py: run_scrape                                                      *)
(* ------------------------------------------------------------------------ *)

\* a return statement of run_scrape: the driver's loop moves on
Return(o, k) ==
  /\ pc' = "idle"
  /\ outcome' = o
  /\ kind' = k
  /\ idx' = idx + 1
  /\ UNCHANGED <<driver, invoked>>

\* an exception leaves run_scrape: the driver has no handler
Escape(k) ==
  /\ pc' = "idle"
  /\ outcome' = "RAISED"
  /\ kind' = k
  /\ driver' = "crashed"
  /\ UNCHANGED <<idx, invoked>>

\* the cookie jar after a response
Cookies(jar, resp) ==
  IF resp.cookie = "" THEN jar ELSE Put(jar, "JSESSIONID", resp.cookie)

\* run_scrape(idx=i, ...) is called: run directory, logger, session
RunScrapeBegin ==
  /\ UNCHANGED <<leftover, concVars>>
  /\ driver = "loop"
  /\ pc = "idle"
  /\ idx < NumRuns
  /\ invoked' = invoked + 1
  /\ pc' = "get_form"
  /\ outcome' = "NONE"
  /\ kind' = ""
  /\ session' = EmptyDict
  /\ form_html' = NoPage
  /\ form_status' = 0
  /\ hidden_fields' = EmptyDict
  /\ payload' = EmptyDict
  /\ form_data' = EmptyDict
  /\ elapsed' = 0
  /\ new_html' = NoPage
  /\ captcha_token' = ""
  /\ submit_resp' = NoResp
  /\ files' = Put(leftover, "scraper_debug.log", << >>)
  /\ getCount' = 0
  /\ solveAttempts' = << >>
  /\ solverCalls' = << >>
  /\ posts' = << >>
  /\ parserCalls' = 0
  /\ UNCHANGED <<driver, idx>>

\* step 2 and 3: GET the form page, write form.html and hidden_fields.json
GetForm ==
  /\ UNCHANGED <<leftover, concVars>>
  /\ pc = "get_form"
  /\ getCount' = getCount + 1
  /\ \/ /\ Return("FAILED", "FetchError")
        /\ UNCHANGED <<session, localVars, files, form_status>>
     \/ \E resp \in Pages, status \in StatusCodes :
          /\ form_status' = status
          /\ session' = Cookies(session, resp)
          /\ form_html' = resp
          /\ hidden_fields' = InlineHiddenFields(resp)
          /\ files' = Put(Put(files, "form.html", resp),
                          "hidden_fields.json", InlineHiddenFields(resp))
          /\ pc' = "payload"
          /\ UNCHANGED <<driverVars, outcome, kind, payload, form_data,
                         elapsed, new_html, captcha_token, submit_resp>>
  /\ UNCHANGED <<solveAttempts, solverCalls, posts, parserCalls>>

\* step 4: generate the payload (saved to payload.json) and merge
BuildPayload ==
  /\ UNCHANGED <<leftover, concVars, form_status>>
  /\ pc = "payload"
  /\ \/ \E c \in PayloadChoices :
          /\ payload' = generate_random_payload(c)
          /\ form_data' = Merge(hidden_fields, generate_random_payload(c))
          /\ files' = Put(files, "payload.json", generate_random_payload(c))
          /\ pc' = "solve1"
          /\ UNCHANGED <<driverVars, outcome, kind>>
     \/ \* generate_random_payload raises (save_json cannot write): the call
        \* is outside every try block
        /\ Escape("PayloadError")
        /\ UNCHANGED <<payload, form_data, files>>
  /\ UNCHANGED <<session, form_html, hidden_fields, elapsed, new_html,
                 captcha_token, submit_resp, traceVars>>

\* solve_captcha without the "if not token" test
solve_captcha_AnyToken(html, tok) ==
  LET cfg == extract_recaptcha_config(html)
  IN  IF ~cfg.ok
      THEN [ok |-> FALSE, asked |-> FALSE, sitekey |-> "", action |-> "",
            token |-> ""]
      ELSE [ok |-> TRUE, asked |-> TRUE, sitekey |-> cfg.sitekey,
            action |-> cfg.action, token |-> tok]

\* solve_captcha(session, html, run_dir) when the solving service answers
\* tok: whether the service was asked, with which parameters, and whether
\* the call returned a token (ok) or raised
solve_captcha(html, tok) ==
  LET cfg == extract_recaptcha_config(html)
  IN  IF ~cfg.ok
      THEN [ok |-> FALSE, asked |-> FALSE, sitekey |-> "", action |-> "",
            token |-> ""]
      ELSE [ok |-> tok # "", asked |-> TRUE, sitekey |-> cfg.sitekey,
            action |-> cfg.action, token |-> tok]

\* the record of one request to the solving service, made by the n-th
\* solve_captcha call of the run
SolverCall(n, r) ==
  [attempt |-> n, sitekey |-> r.sitekey, action |-> r.action,
   token |-> r.token]

\* captcha_token = solve_captcha(session, form_html, run_dir)
FirstSolve(tok) ==
  solve_captcha(form_html, tok)

\* the retry solving on the page of the first GET
RetrySolve_FirstPage(tok) ==
  solve_captcha(form_html, tok)

\* captcha_token = solve_captcha(session, new_html, run_dir)
RetrySolve(tok) ==
  solve_captcha(new_html, tok)

\* the comparison with >= in place of >
RetryAllowed_Inclusive(ms) ==
  ms >= CAPTCHA_TIMEOUT

\* if elapsed > int(os.getenv("CAPTCHA_TIMEOUT", "60000"))
RetryAllowed(ms) ==
  ms > CAPTCHA_TIMEOUT

\* step 5: the first solve attempt and the handler of its failure
Solve1 ==
  /\ UNCHANGED <<leftover, concVars, form_status>>
  /\ pc = "solve1"
  /\ \E tok \in SolverAnswers, ms \in ElapsedTimes :
       LET r == FirstSolve(tok)
       IN  /\ solveAttempts' = Append(solveAttempts, r.ok)
           /\ solverCalls' = IF r.asked
                             THEN Append(solverCalls, SolverCall(1, r))
                             ELSE solverCalls
           /\ IF r.ok
              THEN /\ captcha_token' = r.token
                   /\ pc' = "submit"
                   /\ UNCHANGED <<driverVars, outcome, kind, elapsed>>
              ELSE /\ elapsed' = ms
                   /\ UNCHANGED captcha_token
                   /\ IF RetryAllowed(ms)
                      THEN /\ pc' = "retry_get"
                           /\ UNCHANGED <<driverVars, outcome, kind>>
                      ELSE Return("FAILED", "ChallengeError")
  /\ UNCHANGED <<session, form_html, hidden_fields, payload, form_data,
                 new_html, submit_resp, files, getCount, posts, parserCalls>>

\* the retry treating the re-fetched page like the first one: snapshot and
\* hidden fields taken again from it
RetryGet_Reextract ==
  /\ UNCHANGED <<leftover, concVars>>
  /\ pc = "retry_get"
  /\ getCount' = getCount + 1
  /\ \/ /\ Return("FAILED", "ChallengeError")
        /\ UNCHANGED <<session, new_html, hidden_fields, form_data, files,
                       form_status>>
     \/ \E resp \in Pages, status \in StatusCodes :
          /\ form_status' = status
          /\ session' = Cookies(session, resp)
          /\ new_html' = resp
          /\ hidden_fields' = InlineHiddenFields(resp)
          /\ form_data' = Merge(InlineHiddenFields(resp), payload)
          /\ files' = Put(Put(files, "form.html", resp),
                          "hidden_fields.json", InlineHiddenFields(resp))
          /\ pc' = "solve2"
          /\ UNCHANGED <<driverVars, outcome, kind>>
  /\ UNCHANGED <<form_html, payload, elapsed, captcha_token, submit_resp,
                 solveAttempts, solverCalls, posts, parserCalls>>

\* the retry: re-fetch the form page
RetryGet ==
  /\ UNCHANGED <<leftover, concVars>>
  /\ pc = "retry_get"
  /\ getCount' = getCount + 1
  /\ \/ /\ Return("FAILED", "ChallengeError")
        /\ UNCHANGED <<session, new_html, form_status>>
     \/ \E resp \in Pages, status \in StatusCodes :
          /\ form_status' = status
          /\ session' = Cookies(session, resp)
          /\ new_html' = resp
          /\ pc' = "solve2"
          /\ UNCHANGED <<driverVars, outcome, kind>>
  /\ UNCHANGED <<form_html, hidden_fields, payload, form_data, elapsed,
                 captcha_token, submit_resp, files, solveAttempts,
                 solverCalls, posts, parserCalls>>

\* the retry: the second solve attempt, on the re-fetched page
Solve2 ==
  /\ UNCHANGED <<leftover, concVars, form_status>>
  /\ pc = "solve2"
  /\ \E tok \in SolverAnswers :
       LET r == RetrySolve(tok)
       IN  /\ solveAttempts' = Append(solveAttempts, r.ok)
           /\ solverCalls' = IF r.asked
                             THEN Append(solverCalls, SolverCall(2, r))
                             ELSE solverCalls
           /\ IF r.ok
              THEN /\ captcha_token' = r.token
                   /\ pc' = "submit"
                   /\ UNCHANGED <<driverVars, outcome, kind>>
              ELSE /\ UNCHANGED captcha_token
                   /\ Return("FAILED", "ChallengeError")
  /\ UNCHANGED <<session, form_html, hidden_fields, payload, form_data,
                 elapsed, new_html, submit_resp, files, getCount, posts,
                 parserCalls>>

\* form_data["g-recaptcha-response"] = captcha_token
WithToken(data, token) ==
  Put(data, TokenField, token)

\* steps 6 to 10: save form_data.json and request_info.json, POST, save
\* response.html and response_info.json
Submit ==
  /\ UNCHANGED <<leftover, concVars, form_status>>
  /\ pc = "submit"
  /\ form_data' = WithToken(form_data, captcha_token)
  /\ posts' = Append(posts, form_data')
  /\ LET saved == Put(Put(files, "form_data.json", form_data'),
                      "request_info.json",
                      [cookies |-> session, body_form_data |-> form_data'])
     IN  \/ /\ files' = saved
            /\ Return("FAILED", "SubmitError")
            /\ UNCHANGED submit_resp
         \/ \E body \in Bodies, status \in StatusCodes :
              /\ submit_resp' = [status |-> status, body |-> body]
              /\ files' = Put(Put(saved, "response.html", Text(body)),
                              "response_info.json",
                              [status_code |-> status])
              /\ pc' = "validate"
              /\ UNCHANGED <<driverVars, outcome, kind>>
  /\ UNCHANGED <<session, form_html, hidden_fields, payload, elapsed,
                 new_html, captcha_token, getCount, solveAttempts,
                 solverCalls, parserCalls>>

\* the rejection test on the body as received, not lower-cased
IsNotVerified_CaseSensitive(resp_html) ==
  Contains(resp_html, RejectionPhrase)

\* "session not verified" in html_lower
IsNotVerified(resp_html) ==
  Contains(Lower(resp_html), RejectionPhrase)

\* the validation test with "or" in place of "and"
IsValidationError_Either(resp_html) ==
  \/ Contains(resp_html, AlertMarker)
  \/ Contains(Lower(resp_html), FormLegendMarker)

\* '<div class="alert alert--error"' in resp_html and
\* "<legend>calculate new resident fees</legend>" in html_lower
IsValidationError(resp_html) ==
  /\ Contains(resp_html, AlertMarker)
  /\ Contains(Lower(resp_html), FormLegendMarker)

\* the sanity checks preceded by a test of the status code
Validate_CheckStatus ==
  /\ UNCHANGED <<leftover, concVars, form_status>>
  /\ pc = "validate"
  /\ LET resp_html == Text(submit_resp.body)
     IN  IF submit_resp.status >= 400
         THEN Return("FAILED", "SubmitError")
         ELSE IF IsNotVerified(resp_html)
         THEN Return("FAILED", "RejectedError")
         ELSE IF IsValidationError(resp_html)
         THEN Return("FAILED", "ValidationError")
         ELSE /\ pc' = "parse"
              /\ UNCHANGED <<driverVars, outcome, kind>>
  /\ UNCHANGED <<session, localVars, files, traceVars>>

\* step 11: the pre-parse sanity checks
Validate ==
  /\ UNCHANGED <<leftover, concVars, form_status>>
  /\ pc = "validate"
  /\ LET resp_html == Text(submit_resp.body)
     IN  IF IsNotVerified(resp_html)
         THEN Return("FAILED", "RejectedError")
         ELSE IF IsValidationError(resp_html)
         THEN Return("FAILED", "ValidationError")
         ELSE /\ pc' = "parse"
              /\ UNCHANGED <<driverVars, outcome, kind>>
  /\ UNCHANGED <<session, localVars, files, traceVars>>

\* step 12: parse and save the CSVs
Parse ==
  /\ UNCHANGED <<leftover, concVars, form_status>>
  /\ pc = "parse"
  /\ parserCalls' = parserCalls + 1
  /\ LET r == parse_dmv_response_and_save(submit_resp.body, files)
     IN  /\ files' = r.dir
         /\ IF r.raised
            THEN Return("FAILED", "EmptyExtractionError")
            ELSE Return("DONE", "")
  /\ UNCHANGED <<session, localVars, getCount, solveAttempts, solverCalls,
                 posts>>

Next ==
  \/ clear_directory
  \/ RunScrapeBegin
  \/ GetForm
  \/ BuildPayload
  \/ Solve1
  \/ RetryGet
  \/ Solve2
  \/ Submit
  \/ Validate
  \/ Parse
  \/ DriverFinish

Spec ==
  Init /\ [][Next]_vars

(* ------------------------------------------------------------------------ *)
(* run_scrape calls executed as concurrent tasks                            *)
(*                                                                          *)
(* Each task t executes run_scrape(idx=t, ...).  The steps are those of the *)
(* sequential model; of their effects only the resources a call touches    *)
(* are kept: the files it writes, the handlers of the root logger, and the *)
(* cookies of the session it sends requests with.                          *)
(* ------------------------------------------------------------------------ *)

\* run_dir = os.path.join(output_dir, str(idx))
RunDirOf(t) ==
  t

\* one requests.Session shared by every call
SessionOf_Shared(t) ==
  0

\* session = requests.Session(): each call makes its own
SessionOf(t) ==
  t

\* files written by task t with open(os.path.join(run_dir, name), "w")
Writes(t, names) ==
  {[by |-> t, dir |-> RunDirOf(t), name |-> n] : n \in names}

\* a logging.info/warning/error call of task t: the record goes to the
\* file of every handler attached to the root logger
Logs(t, handlers) ==
  {[by |-> t, dir |-> h, name |-> "scraper_debug.log"] : h \in handlers}

\* a request of task t sent through its session
Request(t, method, n) ==
  [by |-> t, method |-> method, n |-> n, cookies |-> cjar[SessionOf(t)]]

\* the cookie the server sets in its answer to the n-th GET of task t
SetCookie(t, n) ==
  <<t, n>>

ConcGoto(t, where) ==
  cpc' = [cpc EXCEPT ![t] = where]

\* os.makedirs, and configure_logger up to the removal of the handlers
ConcRemoveHandlers ==
  \E t \in Tasks :
    /\ cpc[t] = "new"
    /\ rootHandlers' = {}
    /\ ConcGoto(t, "config")
    /\ UNCHANGED <<seqVars, cwrites, cjar, creqs>>

\* configure_logger from logging.basicConfig on: the FileHandler opens the
\* log file; basicConfig attaches the handlers only when the root logger
\* has none; then the first record is logged and the session is created
ConcBasicConfig ==
  \E t \in Tasks :
    /\ cpc[t] = "config"
    /\ rootHandlers' = IF rootHandlers = {} THEN {RunDirOf(t)}
                       ELSE rootHandlers
    /\ cwrites' = cwrites \cup Writes(t, {"scraper_debug.log"})
                    \cup Logs(t, rootHandlers')
    /\ cjar' = [cjar EXCEPT ![SessionOf(t)] = {}]
    /\ ConcGoto(t, "get_form")
    /\ UNCHANGED <<seqVars, creqs>>

\* step 2 and 3: GET the form page, write form.html and hidden_fields.json
ConcGetForm ==
  \E t \in Tasks :
    /\ cpc[t] = "get_form"
    /\ creqs' = creqs \cup {Request(t, "GET", 1)}
    /\ \/ /\ cwrites' = cwrites \cup Logs(t, rootHandlers)
          /\ ConcGoto(t, "ended")
          /\ UNCHANGED cjar
       \/ /\ cjar' = [cjar EXCEPT ![SessionOf(t)] = @ \cup {SetCookie(t, 1)}]
          /\ cwrites' = cwrites \cup Logs(t, rootHandlers)
                          \cup Writes(t, {"form.html", "hidden_fields.json"})
          /\ ConcGoto(t, "payload")
    /\ UNCHANGED <<seqVars, rootHandlers>>

\* step 4: generate the payload, or leave run_scrape by its exception
ConcBuildPayload ==
  \E t \in Tasks :
    /\ cpc[t] = "payload"
    /\ \/ /\ cwrites' = cwrites \cup Logs(t, rootHandlers)
                          \cup Writes(t, {"payload.json"})
          /\ ConcGoto(t, "solve1")
       \/ /\ ConcGoto(t, "ended")
          /\ UNCHANGED cwrites
    /\ UNCHANGED <<seqVars, rootHandlers, cjar, creqs>>

\* step 5: the first solve attempt
ConcSolve1 ==
  \E t \in Tasks :
    /\ cpc[t] = "solve1"
    /\ cwrites' = cwrites \cup Logs(t, rootHandlers)
    /\ \E where \in {"submit", "retry_get", "ended"} : ConcGoto(t, where)
    /\ UNCHANGED <<seqVars, rootHandlers, cjar, creqs>>

\* the retry: re-fetch the form page
ConcRetryGet ==
  \E t \in Tasks :
    /\ cpc[t] = "retry_get"
    /\ creqs' = creqs \cup {Request(t, "GET", 2)}
    /\ cwrites' = cwrites \cup Logs(t, rootHandlers)
    /\ \/ /\ ConcGoto(t, "ended")
          /\ UNCHANGED cjar
       \/ /\ cjar' = [cjar EXCEPT ![SessionOf(t)] = @ \cup {SetCookie(t, 2)}]
          /\ ConcGoto(t, "solve2")
    /\ UNCHANGED <<seqVars, rootHandlers>>

\* the retry: the second solve attempt
ConcSolve2 ==
  \E t \in Tasks :
    /\ cpc[t] = "solve2"
    /\ cwrites' = cwrites \cup Logs(t, rootHandlers)
    /\ \E where \in {"submit", "ended"} : ConcGoto(t, where)
    /\ UNCHANGED <<seqVars, rootHandlers, cjar, creqs>>

\* steps 6 to 10: save form_data.json and request_info.json, POST, save
\* response.html and response_info.json
ConcSubmit ==
  \E t \in Tasks :
    /\ cpc[t] = "submit"
    /\ creqs' = creqs \cup {Request(t, "POST", 1)}
    /\ \/ /\ cwrites' = cwrites \cup Logs(t, rootHandlers)
                          \cup Writes(t, {"form_data.json",
                                          "request_info.json"})
          /\ ConcGoto(t, "ended")
       \/ /\ cwrites' = cwrites \cup Logs(t, rootHandlers)
                          \cup Writes(t, {"form_data.json",
                                          "request_info.json",
                                          "response.html",
                                          "response_info.json"})
          /\ ConcGoto(t, "parse")
    /\ UNCHANGED <<seqVars, rootHandlers, cjar>>

\* steps 11 and 12: the sanity checks and the parser
ConcParse ==
  \E t \in Tasks :
    /\ cpc[t] = "parse"
    /\ \E names \in {{}, {"summary.csv"}, {"detailed.csv"},
                     {"summary.csv", "detailed.csv"},
                     {"failed_parse.html"}} :
         cwrites' = cwrites \cup Logs(t, rootHandlers) \cup Writes(t, names)
    /\ ConcGoto(t, "ended")
    /\ UNCHANGED <<seqVars, rootHandlers, cjar, creqs>>

NextConc ==
  \/ ConcRemoveHandlers
  \/ ConcBasicConfig
  \/ ConcGetForm
  \/ ConcBuildPayload
  \/ ConcSolve1
  \/ ConcRetryGet
  \/ ConcSolve2
  \/ ConcSubmit
  \/ ConcParse

\* the run_scrape calls as concurrent tasks
SpecConc ==
  Init /\ [][NextConc]_vars

(* ------------------------------------------------------------------------ *)
(* Properties                                                               *)
(* ------------------------------------------------------------------------ *)

\* the current run_scrape call has ended
Ended ==
  pc = "idle" /\ outcome # "NONE"

\* the first solve attempt failed
FirstFailed ==
  Len(solveAttempts) >= 1 /\ ~solveAttempts[1]

\* the first solve attempt failed after more than the timeout threshold
FirstFailedSlow ==
  FirstFailed /\ elapsed > CAPTCHA_TIMEOUT

\* the retry's re-fetch of the form page returned a page
Refetched ==
  new_html # NoPage

\* C1 as stated: a run makes a second solve attempt if and only if its first
\* attempt failed with an elapsed time strictly above CAPTCHA_TIMEOUT, and
\* the solving service is asked at most twice.
C1_AsStated ==
  Ended => /\ (Len(solveAttempts) = 2 <=> FirstFailedSlow)
           /\ Len(solverCalls) <= 2

\* C1 amended: a run makes a second solve attempt if and only if its first
\* attempt failed with an elapsed time strictly above CAPTCHA_TIMEOUT and
\* the re-fetch of the form page succeeded; there are never more than two
\* solve attempts and the solving service is asked at most twice.
C1_SecondAttemptIffSlowFailureAndRefetch ==
  /\ Len(solveAttempts) <= 2
  /\ Len(solverCalls) <= 2
  /\ Len(solveAttempts) = 2 => FirstFailedSlow /\ Refetched
  /\ Ended => (Len(solveAttempts) = 2 <=> FirstFailedSlow /\ Refetched)

C1_Witness ==
  /\ Ended
  /\ Len(solveAttempts) = 2
  /\ Len(solverCalls) = 2
  /\ elapsed = CAPTCHA_TIMEOUT + 1

\* C2: when the retry is taken the form page is fetched once more (two GETs
\* in all) before the second solve attempt, the second attempt asks the
\* solving service with the site key and action of the re-fetched page, and
\* a failed re-fetch or a failed second attempt ends the run FAILED with no
\* POST.
C2_RetryUsesRefetchedPage ==
  /\ getCount <= 2
  /\ Len(solveAttempts) = 2 => getCount = 2 /\ Refetched
  /\ \A i \in 1..Len(solverCalls) :
       solverCalls[i].attempt = 2 =>
         /\ solverCalls[i].sitekey
              = extract_recaptcha_config(new_html).sitekey
         /\ solverCalls[i].action
              = extract_recaptcha_config(new_html).action
  /\ (Ended /\ FirstFailedSlow
        /\ (~Refetched \/ (Len(solveAttempts) = 2 /\ ~solveAttempts[2])))
       => outcome = "FAILED" /\ posts = << >>

C2_Witness ==
  /\ Ended
  /\ Len(solveAttempts) = 2
  /\ solveAttempts[2]
  /\ Len(solverCalls) = 2
  /\ solverCalls[1].sitekey = "K1"
  /\ solverCalls[2].sitekey = "K2"
  /\ solverCalls[2].action = "A2"
  /\ posts # << >>

\* C3: a run whose first solve attempt failed within the threshold, or
\* whose retry failed, ends FAILED without a POST; a POST is issued only
\* after a solve of the same run returned a non-empty token, and a run
\* issues at most one POST.
C3_NoPostWithoutToken ==
  /\ (Ended /\ FirstFailed
        /\ (elapsed <= CAPTCHA_TIMEOUT
              \/ (Len(solveAttempts) = 2 /\ ~solveAttempts[2])))
       => outcome = "FAILED" /\ posts = << >>
  /\ (FirstFailed /\ elapsed <= CAPTCHA_TIMEOUT) => posts = << >>
  /\ Len(posts) <= 1
  /\ posts # << >> =>
       \E i \in 1..Len(solverCalls) :
         /\ solverCalls[i].token # ""
         /\ posts[1][TokenField] = solverCalls[i].token

C3_Witness ==
  /\ Ended
  /\ outcome = "FAILED"
  /\ kind = "ChallengeError"
  /\ Len(solveAttempts) = 2
  /\ ~solveAttempts[2]
  /\ Len(solverCalls) = 2
  /\ posts = << >>

\* some letter-case variant of phrase occurs in text
OccursIgnoringCase(text, phrase) ==
  \E i \in 0..(Len(text) - Len(phrase)) :
    \A j \in 1..Len(phrase) :
      \/ text[i + j] = phrase[j]
      \/ (text[i + j] \in DOMAIN UpperToLower
            /\ UpperToLower[text[i + j]] = phrase[j])

\* a response has been received and it carries the rejection phrase
RejectedBody ==
  /\ submit_resp # NoResp
  /\ OccursIgnoringCase(Text(submit_resp.body), RejectionPhrase)

\* the artifacts parse_dmv_response_and_save writes
ParserArtifacts ==
  {"summary.csv", "detailed.csv", "failed_parse.html"}

\* C4: when the response body contains "session not verified" in any letter
\* case, anywhere, the run ends FAILED at the rejection check, the parser is
\* never called and none of summary.csv, detailed.csv, failed_parse.html is
\* written.
C4_RejectedNeverParsed ==
  RejectedBody =>
    /\ parserCalls = 0
    /\ pc # "parse"
    /\ DOMAIN files \cap ParserArtifacts = {}
    /\ Ended => outcome = "FAILED" /\ kind = "RejectedError"

C4_Witness ==
  /\ Ended
  /\ kind = "RejectedError"
  /\ submit_resp.body.tail = Pad(1) \o TxtRejMixed \o Pad(1)
  /\ extract_summary(submit_resp.body).items # << >>
  /\ parserCalls = 0

\* the summary records of the response of the current run
SummaryRecords ==
  extract_summary(submit_resp.body).items

\* the detail records of the response of the current run
DetailRecords ==
  extract_detail(submit_resp.body).items

\* C5: a run ends DONE only if summary or detail records were extracted;
\* a run that reached extraction ends DONE when exactly one of the two is
\* empty and FAILED only when both are.
C5_DoneNeedsRecords ==
  /\ outcome = "DONE" =>
       /\ SummaryRecords # << >> \/ DetailRecords # << >>
       /\ DOMAIN files \cap {"summary.csv", "detailed.csv"} # {}
       /\ "summary.csv" \in DOMAIN files =>
            files["summary.csv"] = SummaryRecords /\ SummaryRecords # << >>
       /\ "detailed.csv" \in DOMAIN files =>
            files["detailed.csv"] = DetailRecords /\ DetailRecords # << >>
  /\ (Ended /\ parserCalls = 1) =>
       (outcome = "FAILED"
          <=> SummaryRecords = << >> /\ DetailRecords = << >>)
  /\ (Ended /\ parserCalls = 1
        /\ (SummaryRecords = << >>) # (DetailRecords = << >>))
       => outcome = "DONE"

C5_Witness ==
  /\ Ended
  /\ outcome = "DONE"
  /\ SummaryRecords = << >>
  /\ DetailRecords # << >>

\* C6: when both extraction passes yield nothing the run ends FAILED at the
\* extraction stage and failed_parse.html holds the whole response body as
\* received; a run whose extraction succeeded writes no failed_parse.html.
C6_EmptyExtractionDumpsBody ==
  /\ (Ended /\ parserCalls = 1
        /\ SummaryRecords = << >> /\ DetailRecords = << >>)
       => /\ outcome = "FAILED"
          /\ kind = "EmptyExtractionError"
          /\ "failed_parse.html" \in DOMAIN files
          /\ files["failed_parse.html"] = Text(submit_resp.body)
          /\ files["failed_parse.html"] = files["response.html"]
  /\ (driver # "start" /\ "failed_parse.html" \in DOMAIN files)
       => kind = "EmptyExtractionError"
  /\ outcome = "DONE" => "failed_parse.html" \notin DOMAIN files

C6_Witness ==
  /\ Ended
  /\ kind = "EmptyExtractionError"
  /\ extract_summary(submit_resp.body).none
  /\ extract_detail(submit_resp.body).none
  /\ Len(files["failed_parse.html"]) > Len(RejectionPhrase)
  /\ files["failed_parse.html"] # Lower(files["failed_parse.html"])

\* C7 as stated: no failure inside a run leaves run_scrape as an exception;
\* the driver is never stopped by one and ends only after invoking all
\* NumRuns runs.
C7_AsStated ==
  /\ outcome # "RAISED"
  /\ driver # "crashed"
  /\ driver = "done" => invoked = NumRuns

\* the challenge configuration cannot be extracted from the fetched page
FirstConfigFailed ==
  form_html # NoPage /\ ~extract_recaptcha_config(form_html).ok

\* C8 as stated: when challenge-config extraction from the fetched form
\* page fails, the run never asks the solving service, never re-fetches the
\* page, never POSTs and never ends DONE, whatever the elapsed time.
C8_AsStated ==
  FirstConfigFailed =>
    /\ getCount <= 1
    /\ solverCalls = << >>
    /\ posts = << >>
    /\ outcome # "DONE"

\* C9 as stated: the solving service is never asked with an empty site key
\* or an empty action name.
C9_AsStated ==
  \A i \in 1..Len(solverCalls) :
    solverCalls[i].sitekey # "" /\ solverCalls[i].action # ""

\* the token of the last solve of the run that returned one
LastToken ==
  LET ok == {i \in 1..Len(solverCalls) : solverCalls[i].token # ""}
  IN  IF ok = {} THEN ""
      ELSE solverCalls[CHOOSE i \in ok : \A j \in ok : j <= i].token

\* C10: the POSTed body has exactly the keys of the hidden fields, of the
\* payload and the token field; a payload key carries the payload's value,
\* a hidden-field key that is not a payload key carries the hidden value,
\* and g-recaptcha-response carries the token of the run's last successful
\* solve even when a hidden field has that name.
C10_PostedBodyIsMerge ==
  posts # << >> =>
    LET body == posts[1]
        hidden == files["hidden_fields.json"]
        generated == files["payload.json"]
    IN  /\ DOMAIN body = DOMAIN hidden \cup DOMAIN generated \cup {TokenField}
        /\ \A k \in DOMAIN generated \ {TokenField} : body[k] = generated[k]
        /\ \A k \in DOMAIN hidden \ (DOMAIN generated \cup {TokenField}) :
             body[k] = hidden[k]
        /\ body[TokenField] = LastToken
        /\ LastToken # ""
        /\ files["form_data.json"] = body

C10_Witness ==
  /\ posts # << >>
  /\ TokenField \in DOMAIN hidden_fields
  /\ hidden_fields[TokenField] = "stale"
  /\ hidden_fields["typeLicense"] = "98"
  /\ posts[1]["typeLicense"] = "40"
  /\ posts[1]["csrf"] = "c2"
  /\ posts[1][TokenField] = "tokB"
  /\ Len(solveAttempts) = 2

\* t is s without its leading and trailing blanks
IsTrimOf(t, s) ==
  /\ t = << >> \/ (t[1] # " " /\ t[Len(t)] # " ")
  /\ \E a \in 0..Len(s) :
       /\ a + Len(t) <= Len(s)
       /\ SubSeq(s, a + 1, a + Len(t)) = t
       /\ \A i \in 1..Len(s) : (i <= a \/ i > a + Len(t)) => s[i] = " "

Min(a, b) ==
  IF a <= b THEN a ELSE b

\* the response of the current run has a legend captioned exactly "Fees"
\* and the first such legend sits in a fieldset
HasFeesFieldset ==
  /\ \E i \in 1..Len(submit_resp.body.legends) :
       IsTrimOf(FeesCaption, submit_resp.body.legends[i].caption)
  /\ LET hits == {i \in 1..Len(submit_resp.body.legends) :
                    IsTrimOf(FeesCaption, submit_resp.body.legends[i].caption)}
     IN  submit_resp.body.legends[
           CHOOSE i \in hits : \A j \in hits : i <= j].fieldset

\* the first legend captioned "Fees"
FeesLegend ==
  LET hits == {i \in 1..Len(submit_resp.body.legends) :
                 IsTrimOf(FeesCaption, submit_resp.body.legends[i].caption)}
  IN  submit_resp.body.legends[CHOOSE i \in hits : \A j \in hits : i <= j]

\* C11 as stated: for a fieldset captioned "Fees" with N labels and M
\* values, the summary records written by the parser are exactly
\* min(N, M), the i-th pairing the i-th label with the i-th value, so that
\* no record lacks a label or a value.
C11_AsStated ==
  (parserCalls = 1 /\ HasFeesFieldset) =>
    LET n == Min(Len(FeesLegend.dts), Len(FeesLegend.dds))
    IN  IF n = 0 THEN "summary.csv" \notin DOMAIN files
        ELSE /\ "summary.csv" \in DOMAIN files
             /\ Len(files["summary.csv"]) = n
             /\ \A i \in 1..n :
                  /\ IsTrimOf(files["summary.csv"][i].Item, FeesLegend.dts[i])
                  /\ IsTrimOf(files["summary.csv"][i].Fee, FeesLegend.dds[i])

\* the rows of the marked table that have at least two cells
WideRows ==
  SelectSeq(submit_resp.body.table.rows, LAMBDA r : Len(r) >= 2)

\* C12: the detail records written by the parser are one per body row with
\* at least two cells, in document order, each made of the trimmed text of
\* the row's first two cells; shorter rows give no record and do not end
\* the pass; without such rows nothing is written.
C12_DetailRecordsPerWideRow ==
  parserCalls = 1 =>
    IF ~submit_resp.body.table.present \/ WideRows = << >>
    THEN "detailed.csv" \notin DOMAIN files
    ELSE /\ "detailed.csv" \in DOMAIN files
         /\ Len(files["detailed.csv"]) = Len(WideRows)
         /\ \A i \in 1..Len(WideRows) :
              /\ IsTrimOf(files["detailed.csv"][i].Description,
                          WideRows[i][1])
              /\ IsTrimOf(files["detailed.csv"][i].Fee, WideRows[i][2])

C12_Witness ==
  /\ Ended
  /\ parserCalls = 1
  /\ submit_resp.body.table = TableMixed
  /\ Len(files["detailed.csv"]) = 2
  /\ files["detailed.csv"][2].Fee = <<"$","2">>

\* the positions <<form, input>> of the named hidden inputs under the forms
\* of a page that carry the expected identifier
TargetInputs(html) ==
  {p \in UNION {{<<f, i>> : i \in 1..Len(html.forms[f].inputs)} :
                  f \in 1..Len(html.forms)} :
     /\ html.forms[p[1]].id = "FeeRequestForm"
     /\ html.forms[p[1]].inputs[p[2]].type \in {"hidden", "HIDDEN"}
     /\ html.forms[p[1]].inputs[p[2]].hasName
     /\ html.forms[p[1]].inputs[p[2]].name # ""}

\* the value attribute of an input, "" when it has none
ValueAt(html, p) ==
  LET inp == html.forms[p[1]].inputs[p[2]]
  IN  IF inp.hasValue THEN inp.value ELSE ""

\* the page has a form with the expected identifier
HasTargetForm(html) ==
  \E f \in 1..Len(html.forms) : html.forms[f].id = "FeeRequestForm"

\* the mapping has as keys the names of the target inputs, each with the
\* value of an input of that name
IsHiddenMapOf(map, html) ==
  /\ DOMAIN map
       = {html.forms[p[1]].inputs[p[2]].name : p \in TargetInputs(html)}
  /\ \A k \in DOMAIN map :
       \E p \in TargetInputs(html) :
         /\ html.forms[p[1]].inputs[p[2]].name = k
         /\ map[k] = ValueAt(html, p)

\* one form only carries the identifier and hidden inputs spell their type
\* in lower case
PlainFormPage(html) ==
  /\ Cardinality({f \in 1..Len(html.forms) :
                    html.forms[f].id = "FeeRequestForm"}) = 1
  /\ \A p \in TargetInputs(html) :
       html.forms[p[1]].inputs[p[2]].type = "hidden"

\* C13 as stated: for a fetched page with the expected form the run's
\* hidden-field mapping has exactly the names of the hidden inputs under
\* that form as keys, with their values, and extract_hidden_fields returns
\* the same mapping.
C13_AsStated ==
  (form_html # NoPage /\ HasTargetForm(form_html)) =>
    /\ IsHiddenMapOf(hidden_fields, form_html)
    /\ extract_hidden_fields(form_html) = hidden_fields

\* C13 amended: the run's mapping is as stated; extract_hidden_fields
\* returns the same mapping on every page where one form only carries the
\* identifier and the hidden inputs spell their type in lower case.
C13_HiddenFieldsOfForm ==
  (form_html # NoPage /\ HasTargetForm(form_html)) =>
    /\ IsHiddenMapOf(hidden_fields, form_html)
    /\ files["hidden_fields.json"] = hidden_fields
    /\ PlainFormPage(form_html) =>
         extract_hidden_fields(form_html) = hidden_fields

C13_Witness ==
  /\ form_html = PageOk2
  /\ DOMAIN hidden_fields = {"csrf", "flag", "typeLicense", TokenField}
  /\ hidden_fields["flag"] = ""
  /\ extract_hidden_fields(form_html) = hidden_fields

\* C14 as stated: when runs execute as concurrent tasks, every file a run
\* writes, its log output included, lies in that run's own directory.
C14_AsStated ==
  \A w \in cwrites : w.dir = RunDirOf(w.by)

\* C15: every request of a run carries only cookies received by that run;
\* the first GET carries none, and the retry's GET and the POST carry the
\* cookie set by the answer to the form GET; the POST also carries the one
\* set by the answer to the retry's GET.
C15_CookiesStayInRun ==
  /\ \A r \in creqs :
       /\ \A c \in r.cookies : c[1] = r.by
       /\ (r.method = "GET" /\ r.n = 1) => r.cookies = {}
       /\ (r.method = "GET" /\ r.n = 2) => r.cookies = {SetCookie(r.by, 1)}
       /\ r.method = "POST" => SetCookie(r.by, 1) \in r.cookies
  /\ \A r \in creqs, g \in creqs :
       (r.method = "POST" /\ g.by = r.by /\ g.method = "GET" /\ g.n = 2
          /\ SetCookie(r.by, 2) \in cjar[SessionOf(r.by)])
         => r.cookies = {SetCookie(r.by, 1), SetCookie(r.by, 2)}

C15_Witness ==
  /\ \A t \in Tasks : cpc[t] = "ended"
  /\ \E r \in creqs, q \in creqs :
       /\ r.method = "POST" /\ q.method = "POST"
       /\ r.by # q.by
       /\ r.cookies = {SetCookie(r.by, 1), SetCookie(r.by, 2)}
       /\ q.cookies = {SetCookie(q.by, 1)}

\* the form pages saved in the run directory
FormSnapshots ==
  {files[n] : n \in DOMAIN files \cap {"form.html"}}

\* the artifacts other than the retry's page that a run has captured are
\* in its directory
CapturedArePersisted ==
  /\ form_html # NoPage =>
       /\ form_html \in FormSnapshots
       /\ "hidden_fields.json" \in DOMAIN files
       /\ files["hidden_fields.json"] = hidden_fields
       /\ "payload.json" \in DOMAIN files
       /\ files["payload.json"] = payload
  /\ captcha_token # "" =>
       /\ "form_data.json" \in DOMAIN files
       /\ files["form_data.json"] = WithToken(form_data, captcha_token)
       /\ "request_info.json" \in DOMAIN files
       /\ files["request_info.json"].body_form_data = form_data
  /\ submit_resp # NoResp =>
       /\ "response.html" \in DOMAIN files
       /\ files["response.html"] = Text(submit_resp.body)
       /\ "response_info.json" \in DOMAIN files
       /\ files["response_info.json"].status_code = submit_resp.status

\* C16 as stated: when a run ends FAILED, every artifact captured before
\* the failure is in the run directory: the form page (the page fetched by
\* the retry included), the hidden fields and the payload, the combined
\* body and request metadata once there is a token, the response body and
\* metadata once the POST returned.
C16_AsStated ==
  (Ended /\ outcome = "FAILED") =>
    /\ CapturedArePersisted
    /\ Refetched => new_html \in FormSnapshots

\* the response carries the error-alert element
HasAlert ==
  submit_resp.body.alert = AlertMarker

\* the response carries a legend with the form's caption, in any letter case
HasFormLegend ==
  \E i \in 1..Len(submit_resp.body.legends) :
    Lower(submit_resp.body.legends[i].caption) = Lower(CapFormTitle)

\* a response without the rejection phrase has been through the checks
PassedRejectionCheck ==
  /\ submit_resp # NoResp
  /\ ~RejectedBody
  /\ pc # "validate"

\* C17: for a response without the rejection phrase, the run ends FAILED
\* with a validation error, the parser not called, exactly when the body
\* carries both the error-alert element and the form's legend; with one of
\* the two or neither the parser is called on the body.
C17_ValidationErrorIffBothMarkers ==
  PassedRejectionCheck =>
    /\ (HasAlert /\ HasFormLegend) =>
         /\ parserCalls = 0
         /\ Ended /\ outcome = "FAILED" /\ kind = "ValidationError"
    /\ ~(HasAlert /\ HasFormLegend) =>
         /\ kind # "ValidationError"
         /\ \/ pc = "parse" /\ parserCalls = 0
            \/ Ended /\ parserCalls = 1

C17_Witness ==
  /\ Ended
  /\ kind = "ValidationError"
  /\ submit_resp.body.legends = <<FormLegendUpper, FeesOne>>
  /\ submit_resp.body.table = TableOne
  /\ DOMAIN files \cap ParserArtifacts = {}

\* a response with only one of the two markers reaches the parser
C17_WitnessOneMarker ==
  /\ Ended
  /\ parserCalls = 1
  /\ HasAlert /\ ~HasFormLegend

\* the page has no form with the expected id
NoTargetForm(html) ==
  \A i \in 1..Len(html.forms) : html.forms[i].id # "FeeRequestForm"

\* C18: when the fetched page has no form with id FeeRequestForm, the
\* hidden-field mapping is empty, the run does not fail at the fetch but
\* goes on to the payload, and every body it posts is made of the payload
\* and the token only.
C18_MissingFormIsSoft ==
  (form_html # NoPage /\ NoTargetForm(form_html)) =>
    /\ hidden_fields = EmptyDict
    /\ files["hidden_fields.json"] = EmptyDict
    /\ extract_hidden_fields(form_html) = EmptyDict
    /\ pc \in {"payload", "solve1", "retry_get", "solve2", "submit",
               "validate", "parse", "idle"}
    /\ Ended => kind # "FetchError"
    /\ pc \in {"solve1", "retry_get", "solve2", "submit"} =>
         form_data = payload
    /\ \A i \in 1..Len(posts) :
         /\ DOMAIN posts[i] = DOMAIN payload \cup {TokenField}
         /\ \A k \in DOMAIN payload : posts[i][k] = payload[k]
         /\ posts[i][TokenField] = captcha_token

C18_Witness ==
  /\ Ended
  /\ outcome = "DONE"
  /\ NoTargetForm(form_html)
  /\ form_html.forms # << >>
  /\ Len(posts) = 1
  /\ DOMAIN posts[1] = DOMAIN payload \cup {TokenField}

\* C19 as stated: every run ends in one of the terminal states DONE or
\* FAILED, after at most two form GETs, two solver calls and one POST.
C19_AsStated ==
  /\ getCount <= 2
  /\ Len(solverCalls) <= 2
  /\ Len(posts) <= 1
  /\ (pc = "idle" /\ invoked > 0) => outcome \in {"DONE", "FAILED"}

\* the artifact names run_scrape and the parser write
ArtifactNames ==
  {"scraper_debug.log", "form.html", "hidden_fields.json", "payload.json",
   "form_data.json", "request_info.json", "response.html",
   "response_info.json"} \cup ParserArtifacts

\* the artifact n of the run directory was written by the current run
WrittenByCurrentRun(n) ==
  /\ n = "scraper_debug.log" => files[n] = << >>
  /\ n = "form.html" => form_html # NoPage /\ files[n] = form_html
  /\ n = "hidden_fields.json" =>
       form_html # NoPage /\ files[n] = hidden_fields
  /\ n = "payload.json" => payload # EmptyDict /\ files[n] = payload
  /\ n = "form_data.json" => Len(posts) = 1 /\ files[n] = posts[1]
  /\ n = "request_info.json" =>
       Len(posts) = 1 /\ files[n].body_form_data = posts[1]
  /\ n = "response.html" =>
       submit_resp # NoResp /\ files[n] = Text(submit_resp.body)
  /\ n = "response_info.json" =>
       submit_resp # NoResp /\ files[n].status_code = submit_resp.status
  /\ n = "summary.csv" =>
       parserCalls = 1 /\ SummaryRecords # << >> /\ files[n] = SummaryRecords
  /\ n = "detailed.csv" =>
       parserCalls = 1 /\ DetailRecords # << >> /\ files[n] = DetailRecords
  /\ n = "failed_parse.html" =>
       /\ parserCalls = 1
       /\ kind = "EmptyExtractionError"
       /\ files[n] = Text(submit_resp.body)

\* C20: when a run identifier is run again on an output root that holds
\* the artifacts of an earlier execution, every artifact in the run
\* directory has the content the rerun produced, at whichever stage the
\* rerun is or ended; nothing of the earlier execution remains.
C20_RerunLeavesOnlyItsOwnArtifacts ==
  invoked > 0 =>
    /\ DOMAIN files \subseteq ArtifactNames
    /\ \A n \in DOMAIN files : WrittenByCurrentRun(n)

C20_Witness ==
  /\ Ended
  /\ kind = "FetchError"
  /\ invoked = 1
  /\ DOMAIN StaleDir \cap ParserArtifacts = ParserArtifacts
  /\ DOMAIN files = {"scraper_debug.log"}

\* the retry of the current run returned a token
RetrySucceeded ==
  /\ Refetched
  /\ Len(solveAttempts) = 2
  /\ solveAttempts[2]

\* C21: after a retry that succeeds, form.html is the page of the first
\* GET, hidden_fields.json and the hidden fields of the posted body are
\* those of that first page, the payload is unchanged, and the token is
\* the one the solver returned for the re-fetched page; the hidden fields
\* of the re-fetched page are neither extracted nor posted.
C21_RetryChangesOnlyToken ==
  RetrySucceeded =>
    /\ hidden_fields = InlineHiddenFields(form_html)
    /\ files["form.html"] = form_html
    /\ files["hidden_fields.json"] = InlineHiddenFields(form_html)
    /\ files["payload.json"] = payload
    /\ solverCalls # << >>
    /\ LET last == solverCalls[Len(solverCalls)]
       IN  /\ last.attempt = 2
           /\ last.sitekey = extract_recaptcha_config(new_html).sitekey
           /\ last.token = captcha_token
    /\ \A i \in 1..Len(posts) :
         /\ posts[i] = WithToken(Merge(InlineHiddenFields(form_html),
                                       payload), captcha_token)
         /\ files["form_data.json"] = posts[i]

C21_Witness ==
  /\ Ended
  /\ RetrySucceeded
  /\ Len(posts) = 1
  /\ new_html # form_html
  /\ "csrf" \in DOMAIN InlineHiddenFields(new_html)
  /\ "csrf" \in DOMAIN InlineHiddenFields(form_html)
  /\ InlineHiddenFields(new_html)["csrf"] # posts[1]["csrf"]
  /\ posts[1]["csrf"] = InlineHiddenFields(form_html)["csrf"]

\* how a run that received the response of its POST ends, from the body
\* alone
EndOfBody ==
  IF RejectedBody THEN <<"FAILED", "RejectedError">>
  ELSE IF HasAlert /\ HasFormLegend THEN <<"FAILED", "ValidationError">>
  ELSE IF SummaryRecords = << >> /\ DetailRecords = << >>
  THEN <<"FAILED", "EmptyExtractionError">>
  ELSE <<"DONE", "">>

\* C22: the status code of the form GET response and of the POST response
\* does not influence the run: a run is aborted as FetchError or
\* SubmitError only when no response was received, a fetched page is
\* processed whatever its status code, and a run that received the POST's
\* response ends as the body alone determines.
C22_StatusCodeIgnored ==
  /\ kind = "FetchError" => form_status = 0 /\ form_html = NoPage
  /\ kind = "SubmitError" => submit_resp = NoResp /\ Len(posts) = 1
  /\ form_status # 0 =>
       /\ form_html # NoPage
       /\ files["form.html"] = form_html
       /\ hidden_fields = InlineHiddenFields(form_html)
       /\ pc # "get_form"
  /\ (Ended /\ submit_resp # NoResp) =>
       <<outcome, kind>> = EndOfBody

C22_Witness ==
  /\ Ended
  /\ outcome = "DONE"
  /\ form_status = 500
  /\ submit_resp.status = 500
  /\ getCount = 1

====
